---- MODULE Spec2Model ----
(***************************************************************************)
(* FIPS tunnel bootstrap of delivery-cli (src/delivery/fips/mod.rs).       *)
(*                                                                         *)
(* The state is the caller's Config, the part of the file system the       *)
(* module touches (directories, the stunnel config file, the certificate   *)
(* file), the caller's vector of child processes, and the position of the  *)
(* running activation.  History variables (steps, commands, fetch_calls,   *)
(* prior) record what one activation did; they are reset when the next     *)
(* operation begins.                                                       *)
(*                                                                         *)
(* File contents are strings, built with \o exactly as the code builds     *)
(* them with String + and write_all.  Paths are sequences of components,   *)
(* rendered by to_str.  Option<T> is a sequence of length 0 (None) or 1.   *)
(***************************************************************************)
EXTENDS Naturals, Sequences, FiniteSets, TLC

VARIABLES
    platform,         \* cfg!(target_os): "windows" or "posix", fixed per build
    stunnel_exists,   \* Path::new(&utils::stunnel_path()).exists()
    config,           \* the caller's Config (fips, server, fips_git_port, api_port)
    dirs,             \* the directories that exist
    fs,               \* path -> [exists, data] for the files of interest
    child_processes,  \* the caller's Vec<std::process::Child>
    pc,               \* position of the activation in progress, or "idle"
    result,           \* value returned by the last operation
    last_op,          \* "none", "activate", "merge" or "test"
    steps,            \* history: the steps of the current activation, with outcome
    commands,         \* history: command lines handed to output()/spawn(), with outcome
    fetch_calls,      \* history: arguments of utils::copy_automate_nginx_cert
    prior,            \* history: config, fs, dirs, child_processes when the operation began
    activations,      \* number of activations begun
    generated         \* history: path and inputs of the generate_stunnel_config call that
                      \* wrote the config file completely, None once another call touched it

vars == <<platform, stunnel_exists, config, dirs, fs, child_processes, pc, result,
          last_op, steps, commands, fetch_calls, prior, activations, generated>>

----------------------------------------------------------------------------
(* Bounds of the model *)

MaxActivations == 2
MaxPrior == 1

----------------------------------------------------------------------------
(* Option<T> *)

None == <<>>
Some(v) == <<v>>
unwrap(o) == o[1]
unwrap_or(o, d) == IF o = None THEN d ELSE o[1]

(* DeliveryResult<()> *)

Ok == [kind |-> "Ok", detail |-> ""]
Err(k, d) == [kind |-> k, detail |-> d]
Pending == [kind |-> "Pending", detail |-> ""]
NoResult == [kind |-> "None", detail |-> ""]

----------------------------------------------------------------------------
(* Input domains *)

Platforms == {"windows", "posix"}
Servers == {"automate.test", "chef.example"}
GitPorts == {"36534", "8989"}
ApiPorts == {"4443", "8989"}
Certs == {"", "-----BEGIN CERTIFICATE-----\nMIIB\n-----END CERTIFICATE-----\n"}
FetchErrors == {Err("AutomateNginxCertFetchFailed", "connect"), Err("OpenSSLError", "handshake")}
IoError(op) == Err("IoError", op)
CommandError == Err("FailedToExecute", "generate_command_from_string")

----------------------------------------------------------------------------
(* Paths *)

Home(pf) == IF pf = "windows" THEN <<"C:", "Users", "user">> ELSE <<"home", "user">>

home_dir(pf, rel) == Home(pf) \o rel

RECURSIVE join(_, _)
join(p, sep) ==
    IF Len(p) = 0 THEN ""
    ELSE IF Len(p) = 1 THEN p[1]
    ELSE p[1] \o sep \o join(Tail(p), sep)

to_str(pf, p) == IF pf = "windows" THEN join(p, "\\") ELSE "/" \o join(p, "/")

parent(p) == SubSeq(p, 1, Len(p) - 1)

ancestors(p) == {SubSeq(p, 1, n) : n \in 1..Len(p)}

stunnel_bin(pf) ==
    IF pf = "windows"
    THEN <<"C:", "opscode", "chefdk", "embedded", "bin", "stunnel.exe">>
    ELSE <<"opt", "chefdk", "embedded", "bin", "stunnel">>

stunnel_path(pf) == to_str(pf, stunnel_bin(pf))

stunnel_config_path(pf) ==
    IF pf = "windows"
    THEN <<"C:", "opscode", "chefdk", "embedded", "stunnel.conf">>
    ELSE home_dir(pf, <<".chefdk", "etc", "stunnel.conf">>)

etc_dir(pf) == home_dir(pf, <<".chefdk", "etc">>)
log_dir(pf) == home_dir(pf, <<".chefdk", "log">>)
log_path(pf) == home_dir(pf, <<".chefdk", "log", "stunnel.log">>)
cert_path(pf) == home_dir(pf, <<".chefdk", "etc", "automate-nginx-cert.pem">>)

Files(pf) == {stunnel_config_path(pf), cert_path(pf), log_path(pf)}

Absent == [exists |-> FALSE, data |-> ""]
FileOf(d) == [exists |-> TRUE, data |-> d]

----------------------------------------------------------------------------
(* Collaborators outside this module *)

\* the validate! macro: the named field, or an error naming it
validate(cfg, field) ==
    IF cfg[field] = None
    THEN Err("MissingRequiredField", field)
    ELSE Ok

\* Config::set_fips_git_port
set_fips_git_port(cfg, port) == [cfg EXCEPT !.fips_git_port = Some(port)]

\* outcomes of running a command: generate_command_from_string fails, the process
\* cannot be started, or it runs and exits with a failure or a success status
CmdOutcomes == {"gen_err", "io_err", "exit_fail", "exit_ok"}
SpawnOutcomes == {"gen_err", "io_err", "spawned"}

\* outcomes of utils::copy_automate_nginx_cert
FetchOutcomes ==
    {[ok |-> TRUE, cert |-> c, err |-> Ok] : c \in Certs}
    \cup {[ok |-> FALSE, cert |-> "", err |-> e] : e \in FetchErrors}

----------------------------------------------------------------------------
(* generate_stunnel_config: the bytes *)

newline_str(pf) == IF pf = "windows" THEN "\r\n" ELSE "\n"

\* faulty variant: the directive names a file the certificate is not written to
ca_file_path_other(pf) == home_dir(pf, <<".chefdk", "etc", "automate-nginx-cert.crt">>)

\* line 143: the path of the CAfile directive, spelled out there a second time
ca_file_path(pf) == home_dir(pf, <<".chefdk", "etc", "automate-nginx-cert.pem">>)

\* faulty variant: the foreground directive is written on every platform
config_writes_foreground_everywhere(pf, server, fips_git_port) ==
    <<"fips = yes" \o newline_str(pf),
      "client = yes" \o newline_str(pf),
      "output = " \o to_str(pf, log_path(pf)) \o newline_str(pf),
      "foreground = quiet\n",
      "[git]" \o newline_str(pf),
      "accept = " \o fips_git_port \o newline_str(pf),
      "connect = " \o server \o ":8989" \o newline_str(pf),
      "checkHost = " \o server \o newline_str(pf),
      "verifyChain = yes" \o newline_str(pf),
      "verify = 3" \o newline_str(pf),
      "CAfile = " \o to_str(pf, cert_path(pf)) \o newline_str(pf)>>

\* the write_all calls of generate_stunnel_config, in program order
config_writes(pf, server, fips_git_port) ==
    <<"fips = yes" \o newline_str(pf),
      "client = yes" \o newline_str(pf),
      "output = " \o to_str(pf, log_path(pf)) \o newline_str(pf)>>
    \o (IF pf # "windows" THEN <<"foreground = quiet\n">> ELSE <<>>)
    \o <<"[git]" \o newline_str(pf),
         "accept = " \o fips_git_port \o newline_str(pf),
         "connect = " \o server \o ":8989" \o newline_str(pf),
         "checkHost = " \o server \o newline_str(pf),
         "verifyChain = yes" \o newline_str(pf),
         "verify = 3" \o newline_str(pf),
         "CAfile = " \o to_str(pf, ca_file_path(pf)) \o newline_str(pf)>>

\* the content of a file after the first n of the writes
RECURSIVE written(_, _)
written(ws, n) == IF n = 0 THEN "" ELSE written(ws, n - 1) \o ws[n]

\* std::fs::create_dir_all
create_dir_all(ds, p) == ds \cup ancestors(p)

\* File::create: creates or truncates; needs the parent directory
can_create(ds, p) == parent(p) \in ds

----------------------------------------------------------------------------
(* Initial state *)

Configs ==
    [fips : {None, Some(TRUE), Some(FALSE)},
     server : {None} \cup {Some(s) : s \in Servers},
     fips_git_port : {None} \cup {Some(p) : p \in GitPorts},
     api_port : {None} \cup {Some(p) : p \in ApiPorts}]

CallerChild(i) == [cmd |-> "caller-child", n |-> i]

\* a fresh home directory, or one where an earlier run left its files
FreshDirs(pf) == ancestors(Home(pf))
UsedDirs(pf) == FreshDirs(pf) \cup ancestors(etc_dir(pf)) \cup ancestors(log_dir(pf))
                  \cup ancestors(parent(stunnel_config_path(pf)))

FreshFs(pf) == [p \in Files(pf) |-> Absent]
UsedFs(pf) ==
    [p \in Files(pf) |->
        IF p = stunnel_config_path(pf)
        THEN FileOf(written(config_writes(pf, "old.example", "1"), 6) \o "; edited by hand\n"
                    \o written(config_writes(pf, "old.example", "1"), 6))
        ELSE IF p = cert_path(pf) THEN FileOf("old certificate")
        ELSE FileOf("log")]

Init ==
    /\ platform \in Platforms
    /\ stunnel_exists \in BOOLEAN
    /\ config \in Configs
    /\ \E used \in BOOLEAN :
          /\ dirs = (IF used THEN UsedDirs(platform) ELSE FreshDirs(platform))
                      \cup (IF stunnel_exists THEN ancestors(parent(stunnel_bin(platform)))
                            ELSE {})
          /\ fs = IF used THEN UsedFs(platform) ELSE FreshFs(platform)
    /\ \E n \in 0..MaxPrior : child_processes = [i \in 1..n |-> CallerChild(i)]
    /\ pc = "idle"
    /\ result = NoResult
    /\ last_op = "none"
    /\ steps = <<>>
    /\ commands = <<>>
    /\ fetch_calls = <<>>
    /\ generated = None
    /\ prior = [config |-> config, dirs |-> dirs, fs |-> fs,
                child_processes |-> child_processes, args |-> <<>>,
                generated |-> generated]
    /\ activations = 0

----------------------------------------------------------------------------
(* setup_and_start_stunnel_if_fips_mode *)

\* faulty variant: the tunnel is launched before the certificate is written
NextStep_launch_first(step) ==
    IF step = "generate_stunnel_config" THEN "start_stunnel"
    ELSE IF step = "start_stunnel" THEN "write_stunnel_cert_file"
    ELSE "idle"

NextStep(step) ==
    IF step = "generate_stunnel_config" THEN "write_stunnel_cert_file"
    ELSE IF step = "write_stunnel_cert_file" THEN "start_stunnel"
    ELSE "idle"

\* faulty variant: the result of a step is dropped and the next step runs anyway
try_step_continue(step, r) ==
    /\ steps' = Append(steps, [step |-> step, ok |-> (r = Ok), r |-> r])
    /\ pc' = NextStep(step)
    /\ result' = IF NextStep(step) = "idle" THEN r ELSE Pending

\* faulty variant: a failing step ends the activation, which still returns Ok(())
try_step_swallow(step, r) ==
    /\ steps' = Append(steps, [step |-> step, ok |-> (r = Ok), r |-> r])
    /\ pc' = IF r = Ok THEN NextStep(step) ELSE "idle"
    /\ result' = IF r = Ok /\ NextStep(step) # "idle" THEN Pending ELSE Ok

\* try!(step) of lines 39-43 and the final Ok(()): an error is returned at once,
\* a success moves on to the next step
try_step(step, r) ==
    /\ steps' = Append(steps, [step |-> step, ok |-> (r = Ok), r |-> r])
    /\ IF r = Ok
       THEN /\ pc' = NextStep(step)
            /\ result' = IF NextStep(step) = "idle" THEN Ok ELSE Pending
       ELSE /\ pc' = "idle"
            /\ result' = r

\* faulty variant: fips_git_port is validated before server
gate_port_first(cfg, exists) ==
    IF cfg.fips = Some(TRUE)
    THEN IF ~exists THEN Err("FipsNotSupportedForChefDKPlatform", "")
         ELSE IF validate(cfg, "fips_git_port") # Ok THEN validate(cfg, "fips_git_port")
         ELSE IF validate(cfg, "server") # Ok THEN validate(cfg, "server")
         ELSE Pending
    ELSE Ok

\* faulty variant: the existence of the binary is not checked
gate_no_binary_check(cfg, exists) ==
    IF cfg.fips = Some(TRUE)
    THEN IF validate(cfg, "server") # Ok THEN validate(cfg, "server")
         ELSE IF validate(cfg, "fips_git_port") # Ok THEN validate(cfg, "fips_git_port")
         ELSE Pending
    ELSE Ok

\* faulty variant: an absent fips_git_port makes the activation a silent no-op
gate_port_optional(cfg, exists) ==
    IF cfg.fips = Some(TRUE)
    THEN IF ~exists THEN Err("FipsNotSupportedForChefDKPlatform", "")
         ELSE IF validate(cfg, "server") # Ok THEN validate(cfg, "server")
         ELSE IF validate(cfg, "fips_git_port") # Ok THEN Ok
         ELSE Pending
    ELSE Ok

\* faulty variant: an absent FIPS flag counts as true (config.fips.unwrap_or(true))
gate_flag_default_on(cfg, exists) ==
    IF unwrap_or(cfg.fips, TRUE)
    THEN IF ~exists THEN Err("FipsNotSupportedForChefDKPlatform", "")
         ELSE IF validate(cfg, "server") # Ok THEN validate(cfg, "server")
         ELSE IF validate(cfg, "fips_git_port") # Ok THEN validate(cfg, "fips_git_port")
         ELSE Pending
    ELSE Ok

\* lines 29-37 and 46: the FIPS flag, the binary, the required fields.  Pending:
\* the three steps are to be run; any other value is returned at once.
gate(cfg, exists) ==
    IF cfg.fips = Some(TRUE)
    THEN IF ~exists THEN Err("FipsNotSupportedForChefDKPlatform", "")
         ELSE IF validate(cfg, "server") # Ok THEN validate(cfg, "server")
         ELSE IF validate(cfg, "fips_git_port") # Ok THEN validate(cfg, "fips_git_port")
         ELSE Pending
    ELSE Ok

setup_and_start_stunnel_if_fips_mode ==
    /\ pc = "idle"
    /\ activations < MaxActivations
    /\ activations' = activations + 1
    /\ last_op' = "activate"
    /\ prior' = [config |-> config, dirs |-> dirs, fs |-> fs,
                 child_processes |-> child_processes, args |-> <<>>,
                 generated |-> generated]
    /\ steps' = <<>>
    /\ commands' = <<>>
    /\ fetch_calls' = <<>>
    /\ result' = gate(config, stunnel_exists)
    /\ pc' = IF gate(config, stunnel_exists) = Pending
             THEN "generate_stunnel_config"
             ELSE "idle"
    /\ UNCHANGED <<platform, stunnel_exists, config, dirs, fs, child_processes, generated>>

----------------------------------------------------------------------------
(* generate_stunnel_config(server, fips_git_port) *)

\* The calls that can fail, in program order: 1 create_dir_all(etc),
\* 2 create_dir_all(log), 3 File::create, 3+k the k-th write_all.
\* fail_at = 0: none fails.  A failing call has no effect of its own.
gen_calls(pf, server, port) == Len(config_writes(pf, server, port)) + 3

\* faulty variant: only the log directory is created
gen_dirs_log_only(pf, ds, fail_at) ==
    IF fail_at \in {1, 2} THEN ds ELSE create_dir_all(ds, log_dir(pf))

gen_dirs(pf, ds, fail_at) ==
    IF fail_at = 1 THEN ds
    ELSE IF fail_at = 2 THEN create_dir_all(ds, etc_dir(pf))
    ELSE create_dir_all(create_dir_all(ds, etc_dir(pf)), log_dir(pf))

\* whether File::create is reached and succeeds
gen_created(pf, ds, fail_at) ==
    /\ fail_at \notin {1, 2, 3}
    /\ can_create(gen_dirs(pf, ds, fail_at), stunnel_config_path(pf))

gen_result(pf, ds, fail_at) ==
    IF fail_at = 1 THEN IoError("create_dir_all etc")
    ELSE IF fail_at = 2 THEN IoError("create_dir_all log")
    ELSE IF ~can_create(gen_dirs(pf, ds, fail_at), stunnel_config_path(pf))
    THEN IoError("File::create stunnel.conf: NotFound")
    ELSE IF fail_at = 3 THEN IoError("File::create stunnel.conf")
    ELSE IF fail_at # 0 THEN IoError("write_all stunnel.conf")
    ELSE Ok

\* faulty variant: the file is opened for appending instead of being truncated
gen_file_append(pf, ds, old, server, port, fail_at) ==
    IF ~gen_created(pf, ds, fail_at) THEN old
    ELSE IF fail_at = 0 THEN FileOf(old.data \o written(config_writes(pf, server, port),
                                                        Len(config_writes(pf, server, port))))
    ELSE FileOf(old.data \o written(config_writes(pf, server, port), fail_at - 4))

gen_file(pf, ds, old, server, port, fail_at) ==
    IF ~gen_created(pf, ds, fail_at) THEN old
    ELSE IF fail_at = 0 THEN FileOf(written(config_writes(pf, server, port),
                                            Len(config_writes(pf, server, port))))
    ELSE FileOf(written(config_writes(pf, server, port), fail_at - 4))

\* history: what is known of the config file after the call
gen_generated(pf, ds, old, server, port, fail_at) ==
    IF ~gen_created(pf, ds, fail_at) THEN old
    ELSE IF fail_at = 0
    THEN Some([path |-> stunnel_config_path(pf), server |-> server, port |-> port])
    ELSE None

generate_stunnel_config ==
    /\ pc = "generate_stunnel_config"
    /\ \E fail_at \in 0..gen_calls(platform, unwrap(config.server), unwrap(config.fips_git_port)) :
          /\ dirs' = gen_dirs(platform, dirs, fail_at)
          /\ fs' = [fs EXCEPT ![stunnel_config_path(platform)] =
                        gen_file(platform, dirs, @, unwrap(config.server),
                                 unwrap(config.fips_git_port), fail_at)]
          /\ generated' = gen_generated(platform, dirs, generated, unwrap(config.server),
                                        unwrap(config.fips_git_port), fail_at)
          /\ try_step("generate_stunnel_config", gen_result(platform, dirs, fail_at))
    /\ UNCHANGED <<platform, stunnel_exists, config, child_processes, last_op,
                   commands, fetch_calls, prior, activations>>

\* tests::generate_stunnel_config_test, line 174: the function called on its own,
\* generate_stunnel_config("automate.test", "36534").unwrap(); an Err is the
\* payload of the panic.  The test process calls nothing else of the module.
generate_stunnel_config_test ==
    /\ pc = "idle"
    /\ last_op = "none"
    /\ pc' = "test_done"
    /\ \E fail_at \in 0..gen_calls(platform, "automate.test", "36534") :
          /\ dirs' = gen_dirs(platform, dirs, fail_at)
          /\ fs' = [fs EXCEPT ![stunnel_config_path(platform)] =
                        gen_file(platform, dirs, @, "automate.test", "36534", fail_at)]
          /\ generated' = gen_generated(platform, dirs, generated, "automate.test", "36534",
                                        fail_at)
          /\ result' = gen_result(platform, dirs, fail_at)
    /\ last_op' = "test"
    /\ prior' = [config |-> config, dirs |-> dirs, fs |-> fs,
                 child_processes |-> child_processes, args |-> <<"automate.test", "36534">>,
                 generated |-> generated]
    /\ steps' = <<>>
    /\ commands' = <<>>
    /\ fetch_calls' = <<>>
    /\ UNCHANGED <<platform, stunnel_exists, config, child_processes, activations>>

----------------------------------------------------------------------------
(* write_stunnel_cert_file(server, api_port) *)

\* faulty variant: the certificate is fetched from the port the tunnel accepts on
cert_port_git(cfg) == unwrap_or(cfg.fips_git_port, "443")

\* the port argument of line 41
cert_port(cfg) == unwrap_or(cfg.api_port, "443")

\* The calls that can fail after the fetch: 1 File::create, 2 write_all.
cert_created(pf, ds, f, fail_at) ==
    /\ f.ok
    /\ fail_at # 1
    /\ can_create(ds, cert_path(pf))

cert_result(pf, ds, f, fail_at) ==
    IF ~f.ok THEN f.err
    ELSE IF ~can_create(ds, cert_path(pf))
    THEN IoError("File::create automate-nginx-cert.pem: NotFound")
    ELSE IF fail_at = 1 THEN IoError("File::create automate-nginx-cert.pem")
    ELSE IF fail_at = 2 THEN IoError("write_all automate-nginx-cert.pem")
    ELSE Ok

\* faulty variant: the file is created before the certificate is fetched
cert_file_create_first(pf, ds, old, f, fail_at) ==
    IF fail_at = 1 \/ ~can_create(ds, cert_path(pf)) THEN old
    ELSE IF ~f.ok \/ fail_at = 2 THEN FileOf("")
    ELSE FileOf(f.cert)

cert_file(pf, ds, old, f, fail_at) ==
    IF ~cert_created(pf, ds, f, fail_at) THEN old
    ELSE IF fail_at = 2 THEN FileOf("")
    ELSE FileOf(f.cert)

write_stunnel_cert_file ==
    /\ pc = "write_stunnel_cert_file"
    /\ \E f \in FetchOutcomes, fail_at \in 0..2 :
          /\ fetch_calls' = Append(fetch_calls,
                                   [server |-> unwrap(config.server), port |-> cert_port(config),
                                    ok |-> f.ok, cert |-> f.cert, err |-> f.err,
                                    wrote |-> IF cert_created(platform, dirs, f, fail_at)
                                              THEN Some(cert_path(platform)) ELSE None])
          /\ fs' = [fs EXCEPT ![cert_path(platform)] = cert_file(platform, dirs, @, f, fail_at)]
          /\ try_step("write_stunnel_cert_file", cert_result(platform, dirs, f, fail_at))
    /\ UNCHANGED <<platform, stunnel_exists, config, dirs, child_processes, last_op,
                   commands, prior, activations, generated>>

----------------------------------------------------------------------------
(* start_stunnel(child_processes) *)

windows_args == <<" -install -quiet", " -start -quiet", " -reload -quiet">>

\* faulty variant: the Result of output() is dropped
output_err_ignored(o) == FALSE

\* try!(try!(generate_command_from_string(..)).output()): an Err is returned when
\* the command cannot be built or the process cannot be run; output() is Ok
\* whatever the exit status
output_err(o) == o \in {"gen_err", "io_err"}

\* how many of the invocations are attempted, given their outcomes
RECURSIVE attempted(_, _)
attempted(os, i) ==
    IF i > Len(os) THEN Len(os)
    ELSE IF output_err(os[i]) THEN i
    ELSE attempted(os, i + 1)

windows_commands(pf, os) ==
    [i \in 1..attempted(os, 1) |->
        [cmd |-> stunnel_path(pf) \o windows_args[i], outcome |-> os[i]]]

windows_result(os) ==
    IF output_err(os[attempted(os, 1)]) THEN
        IF os[attempted(os, 1)] = "gen_err" THEN CommandError ELSE IoError("output")
    ELSE Ok

unix_command(pf) == stunnel_path(pf) \o " " \o to_str(pf, stunnel_config_path(pf))

unix_result(o) ==
    IF o = "gen_err" THEN CommandError
    ELSE IF o = "io_err" THEN IoError("spawn")
    ELSE Ok

Child(cmd, n) == [cmd |-> cmd, n |-> n]

\* faulty variant: the new handle is inserted at the front
unix_children_front(cp, pf, o, n) ==
    IF unix_result(o) = Ok THEN <<Child(unix_command(pf), n)>> \o cp ELSE cp

\* line 78: child_processes.push(try!(stunnel_command.spawn()))
unix_children(cp, pf, o, n) ==
    IF unix_result(o) = Ok THEN Append(cp, Child(unix_command(pf), n)) ELSE cp

start_stunnel ==
    /\ pc = "start_stunnel"
    /\ IF platform = "windows"
       THEN \E os \in [1..3 -> CmdOutcomes] :
              /\ commands' = commands \o windows_commands(platform, os)
              /\ child_processes' = child_processes
              /\ try_step("start_stunnel", windows_result(os))
       ELSE \E o \in SpawnOutcomes :
              /\ commands' = Append(commands, [cmd |-> unix_command(platform), outcome |-> o])
              /\ child_processes' = unix_children(child_processes, platform, o, activations)
              /\ try_step("start_stunnel", unix_result(o))
    /\ UNCHANGED <<platform, stunnel_exists, config, dirs, fs, last_op, fetch_calls,
                   prior, activations, generated>>

----------------------------------------------------------------------------
(* merge_fips_options_and_config(fips, fips_git_port, config) *)

\* faulty variant: the port is stored with the setter of another field
merge_wrong_setter(fips, fips_git_port, cfg) ==
    [(IF cfg.fips = None THEN [cfg EXCEPT !.fips = Some(fips)] ELSE cfg)
        EXCEPT !.server = Some(fips_git_port)]

\* faulty variant: the supplied flag always wins
merge_overwrites_flag(fips, fips_git_port, cfg) ==
    set_fips_git_port([cfg EXCEPT !.fips = Some(fips)], fips_git_port)

merge_fips_options_and_config(fips, fips_git_port, cfg) ==
    set_fips_git_port(IF cfg.fips = None THEN [cfg EXCEPT !.fips = Some(fips)] ELSE cfg,
                      fips_git_port)

Merge ==
    /\ pc = "idle"
    /\ \E fips \in BOOLEAN, fips_git_port \in GitPorts :
          /\ config' = merge_fips_options_and_config(fips, fips_git_port, config)
          /\ prior' = [config |-> config, dirs |-> dirs, fs |-> fs,
                       child_processes |-> child_processes,
                       args |-> <<fips, fips_git_port>>,
                       generated |-> generated]
    /\ result' = Ok
    /\ last_op' = "merge"
    /\ steps' = <<>>
    /\ commands' = <<>>
    /\ fetch_calls' = <<>>
    /\ UNCHANGED <<platform, stunnel_exists, dirs, fs, child_processes, pc, activations,
                   generated>>

----------------------------------------------------------------------------

Next ==
    \/ setup_and_start_stunnel_if_fips_mode
    \/ generate_stunnel_config
    \/ write_stunnel_cert_file
    \/ start_stunnel
    \/ Merge
    \/ generate_stunnel_config_test

Spec == Init /\ [][Next]_vars

----------------------------------------------------------------------------
(* Properties *)

\* an activation has begun and no other operation since
Activating == last_op = "activate"
\* the activation has returned
Returned == last_op = "activate" /\ pc = "idle"

\* what an activation may never have touched when it did not get past the gate
Untouched ==
    /\ fs = prior.fs
    /\ dirs = prior.dirs
    /\ child_processes = prior.child_processes
    /\ steps = <<>>
    /\ fetch_calls = <<>>
    /\ commands = <<>>

\* C1: with the FIPS flag true and the tunnel binary missing, activation fails
\* with the unsupported-platform error (Kind::FipsNotSupportedForChefDKPlatform),
\* no file or directory is created or written, and nothing is fetched or run.
C1_MissingBinary ==
    (Activating /\ config.fips = Some(TRUE) /\ ~stunnel_exists)
        => /\ pc = "idle"
           /\ result = Err("FipsNotSupportedForChefDKPlatform", "")
           /\ Untouched

C1_Witness ==
    /\ Returned
    /\ config.fips = Some(TRUE)
    /\ ~stunnel_exists
    /\ config.server # None
    /\ config.fips_git_port # None
    /\ result.kind = "FipsNotSupportedForChefDKPlatform"
    /\ ~fs[stunnel_config_path(platform)].exists

\* C2: with the FIPS flag true, the binary present and server or fips_git_port
\* absent, activation fails with MissingRequiredField naming an absent field;
\* no file is written, the fetcher is not called and no process is launched.
C2_MissingField ==
    (Activating /\ config.fips = Some(TRUE) /\ stunnel_exists
       /\ (config.server = None \/ config.fips_git_port = None))
        => /\ pc = "idle"
           /\ result.kind = "MissingRequiredField"
           /\ result.detail \in {"server", "fips_git_port"}
           /\ config[result.detail] = None
           /\ Untouched

C2_Witness ==
    /\ Returned
    /\ config.fips = Some(TRUE)
    /\ stunnel_exists
    /\ config.server # None
    /\ config.fips_git_port = None
    /\ result = Err("MissingRequiredField", "fips_git_port")

\* C3: with the FIPS flag absent or false, activation returns Ok and changes
\* nothing, whatever the other fields are and whether or not the binary exists.
C3_FlagOffNoOp ==
    (Activating /\ config.fips # Some(TRUE))
        => /\ pc = "idle"
           /\ result = Ok
           /\ Untouched

C3_Witness ==
    /\ Returned
    /\ config.fips = None
    /\ ~stunnel_exists
    /\ config.server = None
    /\ result = Ok
    /\ Len(child_processes) > 0

\* C4: the steps of an activation run in the order generate_stunnel_config,
\* write_stunnel_cert_file, start_stunnel; a step runs only after every earlier
\* one returned Ok, none is skipped, none runs twice, and a failure ends the
\* activation.
StepOrder == <<"generate_stunnel_config", "write_stunnel_cert_file", "start_stunnel">>

C4_StepOrder ==
    /\ Len(steps) <= Len(StepOrder)
    /\ \A i \in 1..Len(steps) :
          /\ steps[i].step = StepOrder[i]
          /\ i < Len(steps) => steps[i].ok
    /\ (Activating /\ pc # "idle") =>
          /\ Len(steps) < Len(StepOrder)
          /\ pc = StepOrder[Len(steps) + 1]
          /\ \A i \in 1..Len(steps) : steps[i].ok
    /\ Len(fetch_calls) <= 1
    /\ fetch_calls # <<>> => (Len(steps) >= 2 /\ steps[1].ok)
    /\ commands # <<>> => (Len(steps) = 3 /\ steps[1].ok /\ steps[2].ok)
    /\ (Returned /\ result = Ok /\ config.fips = Some(TRUE))
          => (Len(steps) = 3 /\ steps[3].ok)

C4_Witness ==
    /\ Returned
    /\ Len(steps) = 3
    /\ steps[3].ok
    /\ activations = 2
    /\ commands # <<>>

\* C5: when a step fails, the activation returns that step's error, no later step
\* runs, and what earlier steps wrote stays: after a failed certificate step the
\* config file just written is on disk and nothing was launched; after a failed
\* launch the config file and the certificate file remain.
FullConfig ==
    FileOf(written(config_writes(platform, unwrap(config.server), unwrap(config.fips_git_port)),
                   Len(config_writes(platform, unwrap(config.server),
                                     unwrap(config.fips_git_port)))))

C5_FailureReturned ==
    (Activating /\ steps # <<>> /\ ~steps[Len(steps)].ok)
        => /\ pc = "idle"
           /\ result = steps[Len(steps)].r
           /\ result # Ok
           /\ prior.dirs \subseteq dirs
           /\ Len(steps) = 1 =>
                 /\ fetch_calls = <<>>
                 /\ commands = <<>>
                 /\ fs[cert_path(platform)] = prior.fs[cert_path(platform)]
                 /\ child_processes = prior.child_processes
           /\ Len(steps) = 2 =>
                 /\ fs[stunnel_config_path(platform)] = FullConfig
                 /\ commands = <<>>
                 /\ child_processes = prior.child_processes
           /\ Len(steps) = 3 =>
                 /\ fs[stunnel_config_path(platform)] = FullConfig
                 /\ fs[cert_path(platform)] = FileOf(fetch_calls[1].cert)
                 /\ child_processes = prior.child_processes

C5_Witness ==
    /\ Returned
    /\ Len(steps) = 2
    /\ ~steps[2].ok
    /\ ~fetch_calls[1].ok
    /\ result \in FetchErrors
    /\ ~prior.fs[stunnel_config_path(platform)].exists
    /\ fs[stunnel_config_path(platform)].exists

----------------------------------------------------------------------------
(* The canonical config file: the directives, one per line *)

Directives(pf, server, fips_git_port) ==
    <<"fips = yes", "client = yes", "output = " \o to_str(pf, log_path(pf))>>
    \o (IF pf = "windows" THEN <<>> ELSE <<"foreground = quiet">>)
    \o <<"[git]",
         "accept = " \o fips_git_port,
         "connect = " \o server \o ":8989",
         "checkHost = " \o server,
         "verifyChain = yes",
         "verify = 3",
         "CAfile = " \o to_str(pf, cert_path(pf))>>

PlatformNewline(pf) == IF pf = "windows" THEN "\r\n" ELSE "\n"

RECURSIVE Lines(_, _)
Lines(ds, nl) == IF ds = <<>> THEN "" ELSE ds[1] \o nl \o Lines(Tail(ds), nl)

\* C6: once generate_stunnel_config has succeeded, the config file holds exactly
\* the canonical directives, each once, in order, each ended by the platform's
\* newline, and nothing else.
C6_ConfigContent ==
    (Activating /\ steps # <<>> /\ steps[1].ok)
        => fs[stunnel_config_path(platform)] =
              FileOf(Lines(Directives(platform, unwrap(config.server),
                                      unwrap(config.fips_git_port)),
                           PlatformNewline(platform)))

C6_Witness ==
    /\ Activating
    /\ steps # <<>>
    /\ steps[1].ok
    /\ platform = "windows"
    /\ config.server = Some("chef.example")
    /\ config.fips_git_port = Some("8989")
    /\ prior.fs[stunnel_config_path(platform)].exists
    /\ fs[stunnel_config_path(platform)] # prior.fs[stunnel_config_path(platform)]

\* C7: merge_fips_options_and_config returns Ok; the FIPS flag of the returned
\* configuration is the input configuration's flag when that was present and the
\* supplied flag when it was absent; its FIPS git port is the supplied port.
C7_Merge ==
    last_op = "merge"
        => /\ result = Ok
           /\ pc = "idle"
           /\ config.fips = (IF prior.config.fips # None THEN prior.config.fips
                             ELSE Some(prior.args[1]))
           /\ config.fips_git_port = Some(prior.args[2])

C7_Witness ==
    /\ last_op = "merge"
    /\ prior.config.fips = Some(FALSE)
    /\ prior.args[1] = TRUE
    /\ prior.config.fips_git_port = Some("36534")
    /\ prior.args[2] = "8989"
    /\ config.fips_git_port = Some("8989")

\* C8 (as amended): the fetcher is called at most once per activation, with the
\* configured server, and with the configured API port when one is present and
\* "443" when it is absent; its port coincides with the FIPS git port or with 8989
\* only when the API port in effect has that value.
EffectiveApiPort == IF config.api_port = None THEN "443" ELSE config.api_port[1]

C8_FetchArgs ==
    Activating =>
        /\ Len(fetch_calls) <= 1
        /\ \A i \in 1..Len(fetch_calls) :
              /\ fetch_calls[i].server = config.server[1]
              /\ config.api_port # None => fetch_calls[i].port = config.api_port[1]
              /\ config.api_port = None => fetch_calls[i].port = "443"
              /\ fetch_calls[i].port \in {config.fips_git_port[1], "8989"}
                    => EffectiveApiPort = fetch_calls[i].port

C8_Witness ==
    /\ Activating
    /\ fetch_calls # <<>>
    /\ config.api_port = None
    /\ fetch_calls[1].port = "443"
    /\ fetch_calls[1].server = "automate.test"

\* C8 as stated: ... and the fetcher is never called with the FIPS git port or
\* with 8989.
C8_Original ==
    Activating =>
        \A i \in 1..Len(fetch_calls) :
              /\ fetch_calls[i].server = config.server[1]
              /\ config.api_port # None => fetch_calls[i].port = config.api_port[1]
              /\ (config.api_port = None) <=> (fetch_calls[i].port = "443")
              /\ fetch_calls[i].port # config.fips_git_port[1]
              /\ fetch_calls[i].port # "8989"

\* C9: during and after an activation the caller's collection is what it was
\* before, with one handle for the tunnel appended at the end exactly when the
\* platform is POSIX and the spawn succeeded.
Spawned == \E i \in 1..Len(commands) : commands[i].outcome = "spawned"

C9_ChildProcesses ==
    Activating =>
        /\ (platform = "posix" /\ Spawned) =>
              /\ Len(child_processes) = Len(prior.child_processes) + 1
              /\ SubSeq(child_processes, 1, Len(prior.child_processes)) = prior.child_processes
              /\ child_processes[Len(child_processes)].cmd
                    = stunnel_path(platform) \o " " \o to_str(platform, stunnel_config_path(platform))
        /\ ~(platform = "posix" /\ Spawned) => child_processes = prior.child_processes
        /\ (Returned /\ platform = "posix" /\ result = Ok /\ config.fips = Some(TRUE)) => Spawned

C9_Witness ==
    /\ Returned
    /\ platform = "posix"
    /\ result = Ok
    /\ Spawned
    /\ prior.child_processes # <<>>
    /\ Len(child_processes) = Len(prior.child_processes) + 1
    /\ activations = 2

\* C10 (as amended): on Windows the launcher issues install, start, reload in that
\* order; an invocation is issued only after output() returned Ok for the one
\* before it, that is, after that subprocess ran and exited, with whatever exit
\* status; if output() returns an error the later invocations are not issued and
\* the launch fails; otherwise all three are issued and the launch succeeds.
ServiceArgs == <<"-install -quiet", "-start -quiet", "-reload -quiet">>
Exited(c) == c.outcome \in {"exit_ok", "exit_fail"}

----------------------------------------------------------------------------
\* C11: a successful generate_stunnel_config leaves the content it writes into an
\* empty file, whatever the file held before (nothing, a longer or shorter text,
\* the output for other inputs); run again with the same inputs it leaves the
\* content it found.
C11_Idempotent ==
    (Activating /\ steps # <<>> /\ steps[1].ok)
        => /\ fs[stunnel_config_path(platform)] = FullConfig
           /\ generated = Some([path |-> stunnel_config_path(platform),
                                server |-> config.server[1],
                                port |-> config.fips_git_port[1]])
           /\ prior.generated = generated
                 => fs[stunnel_config_path(platform)] = prior.fs[stunnel_config_path(platform)]
           /\ Len(fs[stunnel_config_path(platform)].data)
                 = Len(Lines(Directives(platform, config.server[1], config.fips_git_port[1]),
                             PlatformNewline(platform)))

C11_Witness ==
    /\ Activating
    /\ steps # <<>>
    /\ steps[1].ok
    /\ activations = 2
    /\ prior.generated = generated
    /\ prior.fs[stunnel_config_path(platform)].exists
    /\ fs[stunnel_config_path(platform)] = prior.fs[stunnel_config_path(platform)]

----------------------------------------------------------------------------
\* the last call of generate_stunnel_config, as a step of an activation or on its own
GenRan == last_op = "test" \/ (Activating /\ steps # <<>>)
GenReturn == IF last_op = "test" THEN result ELSE steps[1].r
GenPastDirs ==
    GenRan /\ GenReturn \notin {IoError("create_dir_all etc"), IoError("create_dir_all log")}
ParentMissing == IoError("File::create stunnel.conf: NotFound")

----------------------------------------------------------------------------
\* C13: whenever the Process Launcher runs, the certificate file exists and is not
\* empty, whatever text the fetcher returned with success (the empty text
\* included).
C13_CertNonEmpty ==
    (Activating /\ (pc = "start_stunnel" \/ Len(steps) = 3))
        => /\ fs[cert_path(platform)].exists
           /\ fs[cert_path(platform)].data # ""

\* C14: when the POSIX tunnel process is spawned, the config file holds the
\* complete directive sequence and the certificate file the complete fetched
\* text, and no step of the activation is left to run, so the activation writes
\* to neither file after the spawn.
C14_FilesCompleteAtSpawn ==
    (Activating /\ platform = "posix" /\ Spawned)
        => /\ pc = "idle"
           /\ Len(steps) = 3
           /\ Len(fetch_calls) = 1
           /\ fetch_calls[Len(fetch_calls)].ok
           /\ fs[cert_path(platform)] = FileOf(fetch_calls[Len(fetch_calls)].cert)
           /\ fs[stunnel_config_path(platform)] =
                 FileOf(Lines(Directives(platform, config.server[1], config.fips_git_port[1]),
                              PlatformNewline(platform)))

C14_Witness ==
    /\ Activating
    /\ platform = "posix"
    /\ Spawned
    /\ prior.fs[stunnel_config_path(platform)].exists
    /\ prior.fs[cert_path(platform)].exists
    /\ fs[cert_path(platform)].data # ""
    /\ fs[cert_path(platform)] # prior.fs[cert_path(platform)]

\* C15 (as amended): an activation and a direct call of generate_stunnel_config
\* leave the configuration as it was; the merge leaves the server address and the
\* API port as they were, leaves a FIPS flag that was present as it was, and sets
\* an absent FIPS flag to the supplied value (besides setting the FIPS git port).
C15_ConfigFrame ==
    /\ last_op \in {"activate", "test"} => config = prior.config
    /\ last_op = "merge" =>
          /\ config.server = prior.config.server
          /\ config.api_port = prior.config.api_port
          /\ prior.config.fips # None => config.fips = prior.config.fips
          /\ prior.config.fips = None => config.fips = Some(prior.args[1])

C15_Witness ==
    /\ last_op = "merge"
    /\ prior.config.fips = None
    /\ config.fips = Some(TRUE)
    /\ config.server = Some("automate.test")
    /\ config.api_port = Some("4443")
    /\ prior.config.fips_git_port # config.fips_git_port

\* C15 as stated: after every operation the FIPS flag, the server address and the
\* API port equal their values before it.
C15_Original ==
    last_op \in {"activate", "merge"} =>
        /\ config.fips = prior.config.fips
        /\ config.server = prior.config.server
        /\ config.api_port = prior.config.api_port

----------------------------------------------------------------------------
\* C16: after a successful activation the last directive of the config file the
\* Config Materializer wrote names, as CAfile, the path the Certificate Writer
\* wrote the fetched certificate to, and on POSIX the tunnel was started with the
\* command line <tunnel-binary> <path of that config file>.
C16_PathsAgree ==
    (Returned /\ result = Ok /\ config.fips = Some(TRUE))
        => /\ generated # None
           /\ Len(fetch_calls) = 1
           /\ fetch_calls[Len(fetch_calls)].wrote # None
           /\ LET confp == generated[1].path
                  certp == fetch_calls[Len(fetch_calls)].wrote[1]
                  ds == Directives(platform, config.server[1], config.fips_git_port[1])
              IN /\ fs[certp] = FileOf(fetch_calls[Len(fetch_calls)].cert)
                 /\ fs[confp].exists
                 /\ fs[confp].data =
                       Lines(SubSeq(ds, 1, Len(ds) - 1), PlatformNewline(platform))
                       \o "CAfile = " \o to_str(platform, certp) \o PlatformNewline(platform)
                 /\ platform = "posix" =>
                       /\ Len(commands) = 1
                       /\ commands[Len(commands)].cmd
                             = stunnel_path(platform) \o " " \o to_str(platform, confp)
                       /\ child_processes[Len(child_processes)].cmd
                             = stunnel_path(platform) \o " " \o to_str(platform, confp)

C16_Witness ==
    /\ Returned
    /\ result = Ok
    /\ config.fips = Some(TRUE)
    /\ platform = "posix"
    /\ generated # None
    /\ fetch_calls # <<>>
    /\ fetch_calls[1].wrote = Some(cert_path(platform))
    /\ fetch_calls[1].cert # ""
    /\ ~prior.fs[cert_path(platform)].exists

\* C17: when the certificate fetch fails, the activation returns the fetcher's
\* error as it is and the certificate file is what it was before the call; the
\* file differs from what it was only after a successful fetch.
C17_FetchFailure ==
    (Activating /\ fetch_calls # <<>>)
        => /\ ~fetch_calls[Len(fetch_calls)].ok =>
                 /\ pc = "idle"
                 /\ result = fetch_calls[Len(fetch_calls)].err
                 /\ result \in FetchErrors
                 /\ fetch_calls[Len(fetch_calls)].wrote = None
                 /\ fs[cert_path(platform)] = prior.fs[cert_path(platform)]
           /\ fs[cert_path(platform)] # prior.fs[cert_path(platform)]
                 => fetch_calls[Len(fetch_calls)].ok

C17_Witness ==
    /\ Returned
    /\ fetch_calls # <<>>
    /\ ~fetch_calls[1].ok
    /\ result = Err("OpenSSLError", "handshake")
    /\ prior.fs[cert_path(platform)] = FileOf("old certificate")
    /\ fs[cert_path(platform)] = FileOf("old certificate")

\* C18: the binary is checked before the required fields and server before
\* fips_git_port: with the FIPS flag true, a missing binary gives the
\* unsupported-platform error whatever fields are absent; with the binary present
\* the error names server when server is absent (fips_git_port absent or not) and
\* fips_git_port only when server is present.
C18_ValidationOrder ==
    (Activating /\ config.fips = Some(TRUE))
        => /\ ~stunnel_exists => result.kind = "FipsNotSupportedForChefDKPlatform"
           /\ (stunnel_exists /\ config.server = None)
                 => result = Err("MissingRequiredField", "server")
           /\ (stunnel_exists /\ config.server # None /\ config.fips_git_port = None)
                 => result = Err("MissingRequiredField", "fips_git_port")
           /\ result.kind = "MissingRequiredField" => stunnel_exists
           /\ result.detail = "fips_git_port" => config.server # None

C18_Witness ==
    /\ Returned
    /\ config.fips = Some(TRUE)
    /\ stunnel_exists
    /\ config.server = None
    /\ config.fips_git_port = None
    /\ result = Err("MissingRequiredField", "server")

====
